---- MODULE Spec2Model ----
(***************************************************************************)
(* GST reconciliation engine: the graph store written by the ingest        *)
(* handlers, the four mismatch detectors of reconciler.py and the          *)
(* in-memory result cache of api/reconcile.py.                             *)
(*                                                                         *)
(* Money is held in hundredths of a rupee (paise), so 120,000.00 is        *)
(* 12000000.  A node property that is absent (or was SET to null) is the   *)
(* value Absent.                                                           *)
(***************************************************************************)
EXTENDS Integers, Sequences, FiniteSets, TLC

VARIABLES
    invoices,         \* Invoice nodes: invoice_id -> properties
    containsOutward,  \* (GSTR1Return {gstin, period})-[:CONTAINS_OUTWARD]->(inv)
    containsInward,   \* (GSTR2BReturn {gstin, period})-[:CONTAINS_INWARD]->(inv)
    gstr3b,           \* GSTR3BReturn nodes: <<gstin, period>> -> properties
    trades,           \* TRADES_WITH edges: <<supplier, buyer>> -> [volume, frequency]
    taxpayers,        \* Taxpayer nodes (gstin)
    suppliedBy,       \* (inv)-[:SUPPLIED_BY]->(taxpayer)
    suppliedTo,       \* (inv)-[:SUPPLIED_TO]->(taxpayer)
    returnsFiled,     \* (taxpayer)-[:FILED|RECEIVED]->(return): <<kind, gstin, period>>
    _results_store,   \* result cache: period -> entry
    clock,            \* number of completed reconciliation runs (uuid / timestamp source)
    lastResp,         \* response of the handler that ran last
    filedCopy,        \* what each filing last submitted: <<source, supplier, number, period>> -> record
    filings,          \* how many times <<supplier, number, period>> was filed as GSTR1
    uploads,          \* number of records uploaded so far
    probe             \* the call of a function taken alone: its arguments and its result

vars == <<invoices, containsOutward, containsInward, gstr3b, trades, taxpayers,
          suppliedBy, suppliedTo, returnsFiled,
          _results_store, clock, lastResp, filedCopy, filings, uploads, probe>>

storeVars == <<invoices, containsOutward, containsInward, gstr3b, trades,
               taxpayers, suppliedBy, suppliedTo, returnsFiled>>

historyVars == <<filedCopy, filings, uploads>>

-----------------------------------------------------------------------------
(* Bounds of the model *)

MaxIngests == 3

MaxRuns == 2

-----------------------------------------------------------------------------
(* Program constants *)

Absent == -1

CRITICAL_MIN == 50000000

HIGH_MIN == 10000000

MEDIUM_MIN == 1000000

DUPLICATE_MIN == 2

NumReads == 6

NoTimestamp == 0

Periods == {"P1", "P2"}

NumericFields == <<"taxable_value", "cgst", "sgst", "igst">>

-----------------------------------------------------------------------------
(* Inputs: the invoice records and summary returns the uploads are drawn from *)

Inv(s, b, n, tv, c, sg, ig, tot, rate) ==
    [supplier_gstin |-> s, buyer_gstin |-> b, invoice_number |-> n,
     taxable_value |-> tv, cgst |-> c, sgst |-> sg, igst |-> ig,
     total_value |-> tot, gst_rate |-> rate]

Base == Inv("S1", "B1", "N1", 5000000, 3000000, 3000000, 0, 12000000, 18)

\* the base record with another taxable value and total
ValueCopy == Inv("S1", "B1", "N1", 5500000, 3000000, 3000000, 0, 12500000, 18)

\* the base record with another rate and total
RateCopy == Inv("S1", "B1", "N1", 5000000, 3000000, 3000000, 0, 11000000, 12)

\* the base record with another buyer
BuyerCopy == Inv("S1", "B2", "N1", 5000000, 3000000, 3000000, 0, 12000000, 18)

\* an invoice that carries no tax
ZeroTax == Inv("S1", "B1", "N2", 999999, 0, 0, 0, 999999, 0)

\* a supply in the opposite direction
Reverse == Inv("B1", "S1", "N1", 40000000, 0, 0, 10000000, 50000000, 28)

Upload(invoice, rt, p) == [invoice |-> invoice, return_type |-> rt, return_period |-> p]

InvoiceUploads ==
    { Upload(Base, "GSTR1", "P1"), Upload(Base, "GSTR2B", "P1"),
      Upload(ValueCopy, "GSTR2B", "P1"), Upload(RateCopy, "GSTR2B", "P1"),
      Upload(BuyerCopy, "GSTR1", "P1"), Upload(BuyerCopy, "GSTR2B", "P1"),
      Upload(ZeroTax, "GSTR2B", "P1"), Upload(Reverse, "GSTR1", "P1"),
      Upload(Base, "PURCHASE_REGISTER", "P1"),
      Upload(Base, "GSTR1", "P2"), Upload(Base, "GSTR2B", "P2") }

Gstr3b(g, claimed, available) ==
    [gstin |-> g, itc_claimed |-> claimed, itc_available |-> available]

Gstr3bUploads ==
    { [data |-> Gstr3b("B1", 8000000, 9000000), return_period |-> "P1"],
      [data |-> Gstr3b("B1", 8000000, 6000000), return_period |-> "P1"],
      [data |-> Gstr3b("B1", 6000000, 0), return_period |-> "P1"],
      [data |-> Gstr3b("B1", 8000000, 6000000), return_period |-> "P2"] }

-----------------------------------------------------------------------------
(* Generic helpers *)

RECURSIVE SetToSeq(_)
SetToSeq(S) ==
    IF S = {} THEN <<>>
    ELSE LET x == CHOOSE y \in S : TRUE IN <<x>> \o SetToSeq(S \ {x})

RECURSIVE Flatten(_)
Flatten(ss) == IF ss = <<>> THEN <<>> ELSE Head(ss) \o Flatten(Tail(ss))

Abs(x) == IF x < 0 THEN -x ELSE x

Range(s) == {s[i] : i \in 1..Len(s)}

None == "None"

Str(x) == ToString(x)

-----------------------------------------------------------------------------
(* The graph store: ingest (graph_db.py) *)

\* f"{supplier_gstin}_{invoice_number}_{return_period}"
InvoiceId(s, n, p) == s \o "_" \o n \o "_" \o p

\* MERGE (inv:Invoice {invoice_id}) SET inv.<every property> = $<parameter>
NodeProps(invoice, return_type, return_period) ==
    [invoice_number |-> invoice.invoice_number,
     supplier_gstin |-> invoice.supplier_gstin,
     buyer_gstin    |-> invoice.buyer_gstin,
     taxable_value  |-> invoice.taxable_value,
     cgst           |-> invoice.cgst,
     sgst           |-> invoice.sgst,
     igst           |-> invoice.igst,
     total_value    |-> invoice.total_value,
     gst_rate       |-> invoice.gst_rate,
     return_period  |-> return_period,
     source         |-> return_type]

\* MERGE on the key, then SET: one node per key, the last write wins
Upsert(f, k, v) == [x \in DOMAIN f \cup {k} |-> IF x = k THEN v ELSE f[x]]

MergeInvoice(nodes, invoice, return_type, return_period) ==
    Upsert(nodes,
           InvoiceId(invoice.supplier_gstin, invoice.invoice_number, return_period),
           NodeProps(invoice, return_type, return_period))

\* the edge set anew from the invoice being ingested
MergeTradeReplace(edges, s, b, total) ==
    Upsert(edges, <<s, b>>, [volume |-> total, frequency |-> 1])

\* MERGE (supplier)-[tw:TRADES_WITH]->(buyer) ON CREATE ... ON MATCH ...
MergeTrade(edges, s, b, total) ==
    IF <<s, b>> \in DOMAIN edges
    THEN [edges EXCEPT ![<<s, b>>] =
              [volume |-> @.volume + total, frequency |-> @.frequency + 1]]
    ELSE Upsert(edges, <<s, b>>, [volume |-> total, frequency |-> 1])

Link(g, p, id) == [gstin |-> g, period |-> p, id |-> id]

EmptyMap == [x \in {} |-> 0]

\* no function is being called alone
NoCall == [op |-> "none"]

Response(op, status, p, total, breakdown, last_run) ==
    [op |-> op, status |-> status, return_period |-> p, total |-> total,
     breakdown |-> breakdown, last_run |-> last_run]

UploadOk == Response("upload", "success", "", 0, EmptyMap, NoTimestamp)

\* upload_data for one invoice record of an invoice-based return:
\* ingest_invoice_with_relations, then the return node with its FILED/RECEIVED edge
UploadInvoice(invoice, rt, p) ==
    LET s  == invoice.supplier_gstin
        b  == invoice.buyer_gstin
        id == InvoiceId(s, invoice.invoice_number, p)
    IN /\ uploads < MaxIngests
       /\ uploads' = uploads + 1
       /\ invoices' = MergeInvoice(invoices, invoice, rt, p)
       /\ taxpayers' = taxpayers \cup {s, b}
       /\ suppliedBy' = suppliedBy \cup {<<id, s>>}
       /\ suppliedTo' = suppliedTo \cup {<<id, b>>}
       /\ trades' = MergeTrade(trades, s, b, invoice.total_value)
       /\ containsOutward' =
              IF rt = "GSTR1" THEN containsOutward \cup {Link(s, p, id)}
              ELSE containsOutward
       /\ containsInward' =
              IF rt = "GSTR2B" THEN containsInward \cup {Link(b, p, id)}
              ELSE containsInward
       /\ returnsFiled' =
              CASE rt = "GSTR1"  -> returnsFiled \cup {<<"GSTR1", s, p>>}
                [] rt = "GSTR2B" -> returnsFiled \cup {<<"GSTR2B", b, p>>}
                [] OTHER         -> returnsFiled
       /\ filedCopy' = Upsert(filedCopy, <<rt, s, invoice.invoice_number, p>>, invoice)
       /\ filings' =
              IF rt = "GSTR1"
              THEN Upsert(filings, <<s, invoice.invoice_number, p>>,
                          IF <<s, invoice.invoice_number, p>> \in DOMAIN filings
                          THEN filings[<<s, invoice.invoice_number, p>>] + 1 ELSE 1)
              ELSE filings
       /\ lastResp' = UploadOk
       /\ UNCHANGED <<gstr3b, _results_store, clock, probe>>

\* upload_data for one GSTR3B record: ingest_gstr3b
UploadGstr3b(data, p) ==
    /\ uploads < MaxIngests
    /\ uploads' = uploads + 1
    /\ gstr3b' = Upsert(gstr3b, <<data.gstin, p>>,
                        [itc_claimed |-> data.itc_claimed,
                         itc_available |-> data.itc_available])
    /\ taxpayers' = taxpayers \cup {data.gstin}
    /\ returnsFiled' = returnsFiled \cup {<<"GSTR3B", data.gstin, p>>}
    /\ lastResp' = UploadOk
    /\ UNCHANGED <<invoices, containsOutward, containsInward, trades, suppliedBy,
                   suppliedTo, _results_store, clock, filedCopy, filings, probe>>

-----------------------------------------------------------------------------
(* The matching engine (reconciler.py) *)

\* the part of the store the detectors read
Graph == [inv |-> invoices, out |-> containsOutward, inw |-> containsInward,
          g3b |-> gstr3b]

\* Cypher comparisons: a comparison with null is not true
CyNe(a, b) == a # Absent /\ b # Absent /\ a # b

CyGt(a, b) == a # Absent /\ b # Absent /\ a > b

\* dict.get(field, 0) on a node's properties
Get(node, field) == IF node[field] = Absent THEN 0 ELSE node[field]

\* str(node.get(field))
StrOrNone(x) == IF x = Absent THEN None ELSE Str(x)

\* the table with the thresholds taken as exclusive
SeverityExclusive(amount) ==
    IF amount > CRITICAL_MIN THEN "CRITICAL"
    ELSE IF amount > HIGH_MIN THEN "HIGH"
    ELSE IF amount > MEDIUM_MIN THEN "MEDIUM"
    ELSE "LOW"

_severity_for_amount(amount) ==
    IF amount >= CRITICAL_MIN THEN "CRITICAL"
    ELSE IF amount >= HIGH_MIN THEN "HIGH"
    ELSE IF amount >= MEDIUM_MIN THEN "MEDIUM"
    ELSE "LOW"

Mismatch(type, sev, s, b, n, p, field, expected, actual, diff) ==
    [mismatch_type |-> type, severity |-> sev, supplier_gstin |-> s,
     buyer_gstin |-> b, invoice_number |-> n, return_period |-> p,
     field_name |-> field, expected_value |-> expected, actual_value |-> actual,
     amount_difference |-> diff]

\* inv1.invoice_number = inv2.invoice_number AND inv1.supplier_gstin = inv2.supplier_gstin
SameNumberAndSupplier(a, b) ==
    /\ a.invoice_number = b.invoice_number
    /\ a.supplier_gstin = b.supplier_gstin

\* ... AND inv1.buyer_gstin = inv2.buyer_gstin
SameKey(a, b) == SameNumberAndSupplier(a, b) /\ a.buyer_gstin = b.buyer_gstin

\* rows of MATCH (g1:GSTR1Return {return_period})-[:CONTAINS_OUTWARD]->(inv1)
OutwardRows(g, p) == {l \in g.out : l.period = p}

\* rows of MATCH (g2b:GSTR2BReturn {return_period})-[:CONTAINS_INWARD]->(inv2)
InwardRows(g, p) == {l \in g.inw : l.period = p}

\* first query of reconcile_gstr1_vs_gstr2b
MissingInGstr2bRows(g, p) ==
    {l \in OutwardRows(g, p) :
        ~ \E m \in InwardRows(g, p) : SameKey(g.inv[m.id], g.inv[l.id])}

\* the missing invoices graded by their taxable value
MissingInGstr2bByTaxable(g, p) ==
    LET rows == SetToSeq(MissingInGstr2bRows(g, p))
    IN [i \in 1..Len(rows) |->
          LET inv == g.inv[rows[i].id]
          IN Mismatch("MISSING_IN_GSTR2B", _severity_for_amount(Get(inv, "taxable_value")),
                      inv.supplier_gstin, inv.buyer_gstin, inv.invoice_number, p,
                      None, Str(Get(inv, "total_value")), "NOT FOUND",
                      Get(inv, "total_value"))]

MissingInGstr2b(g, p) ==
    LET rows == SetToSeq(MissingInGstr2bRows(g, p))
    IN [i \in 1..Len(rows) |->
          LET inv == g.inv[rows[i].id]
          IN Mismatch("MISSING_IN_GSTR2B", _severity_for_amount(Get(inv, "total_value")),
                      inv.supplier_gstin, inv.buyer_gstin, inv.invoice_number, p,
                      None, Str(Get(inv, "total_value")), "NOT FOUND",
                      Get(inv, "total_value"))]

\* second query of reconcile_gstr1_vs_gstr2b
ValueMismatchRows(g, p) ==
    {r \in OutwardRows(g, p) \X InwardRows(g, p) :
        LET inv1 == g.inv[r[1].id]
            inv2 == g.inv[r[2].id]
        IN /\ SameKey(inv1, inv2)
           /\ \/ CyNe(inv1.taxable_value, inv2.taxable_value)
              \/ CyNe(inv1.cgst, inv2.cgst)
              \/ CyNe(inv1.sgst, inv2.sgst)
              \/ CyNe(inv1.igst, inv2.igst)}

\* for field in ["taxable_value", "cgst", "sgst", "igst"]: if val1 != val2: append
FieldMismatches(inv1, inv2, p) ==
    LET differing == SelectSeq(NumericFields,
                               LAMBDA f : Get(inv1, f) # Get(inv2, f))
    IN [i \in 1..Len(differing) |->
          LET f    == differing[i]
              diff == Abs(Get(inv1, f) - Get(inv2, f))
          IN Mismatch("VALUE_MISMATCH", _severity_for_amount(diff),
                      inv1.supplier_gstin, inv1.buyer_gstin, inv1.invoice_number, p,
                      f, Str(Get(inv1, f)), Str(Get(inv2, f)), diff)]

ValueMismatches(g, p) ==
    LET rows == SetToSeq(ValueMismatchRows(g, p))
    IN Flatten([i \in 1..Len(rows) |->
                  FieldMismatches(g.inv[rows[i][1].id], g.inv[rows[i][2].id], p)])

\* third query of reconcile_gstr1_vs_gstr2b
RateMismatchRows(g, p) ==
    {r \in OutwardRows(g, p) \X InwardRows(g, p) :
        LET inv1 == g.inv[r[1].id]
            inv2 == g.inv[r[2].id]
        IN /\ SameNumberAndSupplier(inv1, inv2)
           /\ CyNe(inv1.gst_rate, inv2.gst_rate)}

RateMismatches(g, p) ==
    LET rows == SetToSeq(RateMismatchRows(g, p))
    IN [i \in 1..Len(rows) |->
          LET inv1 == g.inv[rows[i][1].id]
              inv2 == g.inv[rows[i][2].id]
          IN Mismatch("RATE_MISMATCH", "HIGH",
                      inv1.supplier_gstin, inv1.buyer_gstin, inv1.invoice_number, p,
                      "gst_rate", StrOrNone(inv1.gst_rate), StrOrNone(inv2.gst_rate),
                      Abs(Get(inv1, "total_value") - Get(inv2, "total_value")))]

reconcile_gstr1_vs_gstr2b(g, p) ==
    MissingInGstr2b(g, p) \o ValueMismatches(g, p) \o RateMismatches(g, p)

MissingInGstr1Rows(g, p) ==
    {l \in InwardRows(g, p) :
        ~ \E m \in OutwardRows(g, p) : SameKey(g.inv[m.id], g.inv[l.id])}

reconcile_gstr2b_vs_gstr1(g, p) ==
    LET rows == SetToSeq(MissingInGstr1Rows(g, p))
    IN [i \in 1..Len(rows) |->
          LET inv == g.inv[rows[i].id]
          IN Mismatch("MISSING_IN_GSTR1", _severity_for_amount(Get(inv, "total_value")),
                      inv.supplier_gstin, inv.buyer_gstin, inv.invoice_number, p,
                      None, "PRESENT IN GSTR-1", "NOT FOUND",
                      Get(inv, "total_value"))]

\* inv.cgst + inv.sgst + inv.igst: null when a component is null
TaxOf(node) ==
    IF node.cgst = Absent \/ node.sgst = Absent \/ node.igst = Absent
    THEN Absent
    ELSE node.cgst + node.sgst + node.igst

\* COALESCE(SUM(inv.cgst + inv.sgst + inv.igst), 0) over the rows of the
\* OPTIONAL MATCH; SUM skips nulls
RECURSIVE SumTax(_, _)
SumTax(g, rows) ==
    IF rows = {} THEN 0
    ELSE LET l == CHOOSE x \in rows : TRUE
             t == TaxOf(g.inv[l.id])
         IN (IF t = Absent THEN 0 ELSE t) + SumTax(g, rows \ {l})

ComputedItc(g, gstin, p) ==
    SumTax(g, {l \in g.inw : l.gstin = gstin /\ l.period = p})

\* CASE WHEN computed_itc > 0 THEN computed_itc ELSE g3b.itc_available END
AvailableItc(g, gstin, p) ==
    IF ComputedItc(g, gstin, p) > 0
    THEN ComputedItc(g, gstin, p)
    ELSE g.g3b[<<gstin, p>>].itc_available

\* MATCH (g3b:GSTR3BReturn {return_period}) ... WHERE g3b.itc_claimed > available_itc
ExcessItcRows(g, p) ==
    {k \in DOMAIN g.g3b :
        /\ k[2] = p
        /\ CyGt(g.g3b[k].itc_claimed, AvailableItc(g, k[1], p))}

find_excess_itc(g, p) ==
    LET rows == SetToSeq(ExcessItcRows(g, p))
    IN [i \in 1..Len(rows) |->
          LET gstin     == rows[i][1]
              claimed   == g.g3b[rows[i]].itc_claimed
              available == AvailableItc(g, gstin, p)
              diff      == claimed - available
          IN Mismatch("EXCESS_ITC", _severity_for_amount(diff),
                      "", gstin, "AGGREGATE", p,
                      "itc_claimed", Str(available), Str(claimed), diff)]

\* MATCH (inv:Invoice {return_period}) WITH inv.invoice_number, inv.supplier_gstin, COUNT(*)
DuplicateGroup(g, p, n, s) ==
    {id \in DOMAIN g.inv :
        /\ g.inv[id].return_period = p
        /\ g.inv[id].invoice_number = n
        /\ g.inv[id].supplier_gstin = s}

\* WHERE cnt > 2
DuplicateRows(g, p) ==
    {k \in {<<g.inv[id].invoice_number, g.inv[id].supplier_gstin>> :
                id \in {x \in DOMAIN g.inv : g.inv[x].return_period = p}} :
        Cardinality(DuplicateGroup(g, p, k[1], k[2])) > DUPLICATE_MIN}

find_duplicate_invoices(g, p) ==
    LET rows == SetToSeq(DuplicateRows(g, p))
    IN [i \in 1..Len(rows) |->
          Mismatch("DUPLICATE_INVOICE", "HIGH",
                   rows[i][2], "", rows[i][1], p,
                   "invoice_number", "1-2 occurrences",
                   Str(Cardinality(DuplicateGroup(g, p, rows[i][1], rows[i][2]))), 0)]

\* the four detectors in the order reconcile_all extends the list
reconcile_all(g, p) ==
    reconcile_gstr1_vs_gstr2b(g, p) \o reconcile_gstr2b_vs_gstr1(g, p)
        \o find_excess_itc(g, p) \o find_duplicate_invoices(g, p)

\* f"{supplier_gstin}_{invoice_number}" of reconcile_purchase_register
PrKey(rec) == rec.supplier_gstin \o "_" \o rec.invoice_number

\* the keys of a list in the order a dict comprehension first inserts them
RECURSIVE PrKeys(_)
PrKeys(records) ==
    IF records = <<>> THEN <<>>
    ELSE LET rest == PrKeys(SubSeq(records, 1, Len(records) - 1))
             k    == PrKey(records[Len(records)])
         IN IF \E i \in 1..Len(rest) : rest[i] = k THEN rest ELSE Append(rest, k)

\* pr_invoices[key]: the last record of the list with that key
PrRecord(records, k) ==
    records[CHOOSE i \in 1..Len(records) :
                /\ PrKey(records[i]) = k
                /\ \A j \in (i + 1)..Len(records) : PrKey(records[j]) # k]

\* rows of the GSTR-2B query of reconcile_purchase_register, one invoice per key
Gstr2bOfBuyer(g, gstin, p) ==
    LET ids  == {l.id : l \in {m \in g.inw : m.gstin = gstin /\ m.period = p}}
        keys == {PrKey(g.inv[id]) : id \in ids}
    IN {CHOOSE id \in ids : PrKey(g.inv[id]) = k : k \in keys}

\* abs(val_2b - val_pr) > 0.01 for each of the four fields, in hundredths
PrFieldMismatches(inv, rec, gstin, p) ==
    LET differs(f) == Abs(Get(inv, f) - Get(rec, f)) > 1
        one(f) == IF differs(f)
                  THEN <<Mismatch("VALUE_MISMATCH",
                                  _severity_for_amount(Abs(Get(inv, f) - Get(rec, f))),
                                  inv.supplier_gstin, gstin, inv.invoice_number, p, f,
                                  Str(Get(inv, f)), Str(Get(rec, f)),
                                  Abs(Get(inv, f) - Get(rec, f)))>>
                  ELSE <<>>
    IN Flatten([i \in 1..Len(NumericFields) |-> one(NumericFields[i])])

reconcile_purchase_register(g, gstin, records, p) ==
    LET inBooks == PrKeys(records)
        in2b    == SetToSeq(Gstr2bOfBuyer(g, gstin, p))
        keys2b  == {PrKey(g.inv[id]) : id \in Gstr2bOfBuyer(g, gstin, p)}
        books(k) == PrRecord(records, k)
        notIn2b(k) ==
            IF k \in keys2b THEN <<>>
            ELSE <<Mismatch("MISSING_IN_GSTR2B",
                            _severity_for_amount(books(k).total_value),
                            books(k).supplier_gstin, gstin, books(k).invoice_number, p,
                            None, "PRESENT IN GSTR-2B", "NOT FOUND",
                            books(k).total_value)>>
        notInBooks(id) ==
            LET inv == g.inv[id]
            IN IF ~ \E i \in 1..Len(inBooks) : inBooks[i] = PrKey(inv)
               THEN <<Mismatch("MISSING_IN_GSTR1", "MEDIUM",
                               inv.supplier_gstin, gstin, inv.invoice_number, p,
                               None, "PRESENT IN PURCHASE REGISTER", "NOT FOUND",
                               Get(inv, "total_value"))>>
               ELSE PrFieldMismatches(inv, books(PrKey(inv)), gstin, p)
    IN Flatten([i \in 1..Len(inBooks) |-> notIn2b(inBooks[i])])
           \o Flatten([i \in 1..Len(in2b) |-> notInBooks(in2b[i])])

\* "id": str(uuid.uuid4()): a fresh value per record, here the run and the position
WithIds(ms, run) ==
    [i \in 1..Len(ms) |->
        [id |-> <<run, i>>, mismatch_type |-> ms[i].mismatch_type,
         severity |-> ms[i].severity, supplier_gstin |-> ms[i].supplier_gstin,
         buyer_gstin |-> ms[i].buyer_gstin, invoice_number |-> ms[i].invoice_number,
         return_period |-> ms[i].return_period, field_name |-> ms[i].field_name,
         expected_value |-> ms[i].expected_value, actual_value |-> ms[i].actual_value,
         amount_difference |-> ms[i].amount_difference]]

\* a record without its generated id
StripId(m) ==
    Mismatch(m.mismatch_type, m.severity, m.supplier_gstin, m.buyer_gstin,
             m.invoice_number, m.return_period, m.field_name, m.expected_value,
             m.actual_value, m.amount_difference)

-----------------------------------------------------------------------------
(* The result cache and its handlers (api/reconcile.py) *)

CountType(ms, t) == Len(SelectSeq(ms, LAMBDA m : m.mismatch_type = t))

\* a breakdown that also lists the excess-credit type when it has no mismatch
BreakdownWithZeros(ms) ==
    [t \in {ms[i].mismatch_type : i \in 1..Len(ms)} \cup {"EXCESS_ITC"} |->
        CountType(ms, t)]

\* breakdown[t] = breakdown.get(t, 0) + 1 for every mismatch
_breakdown(ms) ==
    [t \in {ms[i].mismatch_type : i \in 1..Len(ms)} |-> CountType(ms, t)]

\* the entry trigger_reconciliation stores
NewEntry(ms, ts) ==
    [results |-> ms, timestamp |-> ts, total |-> Len(ms), breakdown |-> _breakdown(ms)]

\* an incremental update of an existing entry: the counts are added to the old ones
StoreEntryAddCounts(store, p, ms, ts) ==
    IF p \in DOMAIN store
    THEN Upsert(store, p,
                [results |-> ms, timestamp |-> ts, total |-> store[p].total + Len(ms),
                 breakdown |-> [t \in DOMAIN store[p].breakdown \cup DOMAIN _breakdown(ms) |->
                                  (IF t \in DOMAIN store[p].breakdown
                                   THEN store[p].breakdown[t] ELSE 0)
                                  + (IF t \in DOMAIN _breakdown(ms)
                                     THEN _breakdown(ms)[t] ELSE 0)]])
    ELSE Upsert(store, p, NewEntry(ms, ts))

\* the new list appended to the list of the existing entry
StoreEntryAppend(store, p, ms, ts) ==
    IF p \in DOMAIN store
    THEN Upsert(store, p, NewEntry(store[p].results \o ms, ts))
    ELSE Upsert(store, p, NewEntry(ms, ts))

\* _results_store[return_period] = {...}
StoreEntry(store, p, ms, ts) == Upsert(store, p, NewEntry(ms, ts))

\* the store reads of one run, in order: three in reconcile_gstr1_vs_gstr2b, then
\* one in each of the other detectors; fail = 0 when every read succeeds
FailPoints == 0..NumReads

\* what the detectors that finished before the failing read had found
PartialResults(g, p, fail) ==
    IF fail <= 3 THEN <<>>
    ELSE IF fail = 4 THEN reconcile_gstr1_vs_gstr2b(g, p)
    ELSE IF fail = 5 THEN reconcile_gstr1_vs_gstr2b(g, p) \o reconcile_gstr2b_vs_gstr1(g, p)
    ELSE reconcile_gstr1_vs_gstr2b(g, p) \o reconcile_gstr2b_vs_gstr1(g, p)
             \o find_excess_itc(g, p)

\* a run that stores what it has when a read fails
CacheAfterRunPartial(store, g, p, fail, run) ==
    IF fail # 0 THEN StoreEntry(store, p, WithIds(PartialResults(g, p, fail), run), run)
    ELSE StoreEntry(store, p, WithIds(reconcile_all(g, p), run), run)

\* a run that keeps the entry the period already has
CacheAfterRunKeep(store, g, p, fail, run) ==
    IF fail # 0 \/ p \in DOMAIN store THEN store
    ELSE StoreEntry(store, p, WithIds(reconcile_all(g, p), run), run)

\* what trigger_reconciliation leaves in the cache when it does not answer from it:
\* reconcile_all raises at the failing read and nothing is stored, else the entry
\* of the period is assigned
CacheAfterRun(store, g, p, fail, run) ==
    IF fail # 0 THEN store
    ELSE StoreEntry(store, p, WithIds(reconcile_all(g, p), run), run)

\* POST /reconcile
trigger_reconciliation(p, force, fail) ==
    IF ~force /\ p \in DOMAIN _results_store
    THEN /\ fail = 0
         /\ lastResp' = Response("trigger", "cached", p, _results_store[p].total,
                                 _results_store[p].breakdown,
                                 _results_store[p].timestamp)
         /\ UNCHANGED <<storeVars, historyVars, _results_store, clock, probe>>
    ELSE /\ clock < MaxRuns
         /\ _results_store' = CacheAfterRun(_results_store, Graph, p, fail, clock + 1)
         /\ IF fail # 0
            THEN /\ lastResp' = Response("trigger", "error", p, 0, EmptyMap,
                                         NoTimestamp)
                 /\ UNCHANGED clock
            ELSE /\ clock' = clock + 1
                 /\ lastResp' = Response("trigger", "completed", p,
                                         _results_store'[p].total,
                                         _results_store'[p].breakdown,
                                         _results_store'[p].timestamp)
         /\ UNCHANGED <<storeVars, historyVars, probe>>

\* store_key = f"PR_{gstin}_{return_period}"
PrStoreKey(gstin, p) == "PR_" \o gstin \o "_" \o p

\* POST /reconcile/purchase-register
reconcile_pr(gstin, records, p, fail) ==
    /\ clock < MaxRuns
    /\ IF records = <<>> \/ fail
       THEN /\ lastResp' = Response("reconcile_pr", "error", p, 0, EmptyMap, NoTimestamp)
            /\ UNCHANGED <<_results_store, clock>>
       ELSE LET ms == WithIds(reconcile_purchase_register(Graph, gstin, records, p),
                              clock + 1)
            IN /\ _results_store' =
                      StoreEntry(_results_store, PrStoreKey(gstin, p), ms, clock + 1)
               /\ clock' = clock + 1
               /\ lastResp' = Response("reconcile_pr", "completed", p, Len(ms),
                                       EmptyMap, NoTimestamp)
    /\ UNCHANGED <<storeVars, historyVars, probe>>

\* GET /reconcile/results without filters: the whole list (the page of a list
\* shorter than page_size) and the time of the run
get_results(store, p) ==
    LET cached  == p \in DOMAIN store
        results == IF cached THEN store[p].results ELSE <<>>
    IN [total |-> Len(results), results |-> results,
        last_run |-> IF cached THEN store[p].timestamp ELSE NoTimestamp]

\* GET /reconcile/status
get_reconciliation_status(store, p) ==
    IF p \in DOMAIN store
    THEN [has_results |-> TRUE, return_period |-> p,
          total_mismatches |-> store[p].total, last_run |-> store[p].timestamp]
    ELSE [has_results |-> FALSE, return_period |-> p,
          total_mismatches |-> 0, last_run |-> NoTimestamp]

-----------------------------------------------------------------------------
(* The system *)

Init ==
    /\ invoices = EmptyMap
    /\ containsOutward = {}
    /\ containsInward = {}
    /\ gstr3b = EmptyMap
    /\ trades = EmptyMap
    /\ taxpayers = {}
    /\ suppliedBy = {}
    /\ suppliedTo = {}
    /\ returnsFiled = {}
    /\ _results_store = EmptyMap
    /\ clock = 0
    /\ lastResp = Response("none", "none", "", 0, EmptyMap, NoTimestamp)
    /\ filedCopy = EmptyMap
    /\ filings = EmptyMap
    /\ uploads = 0
    /\ probe = NoCall

Next ==
    \/ \E u \in InvoiceUploads :
           UploadInvoice(u.invoice, u.return_type, u.return_period)
    \/ \E u \in Gstr3bUploads : UploadGstr3b(u.data, u.return_period)
    \/ \E p \in Periods, force \in BOOLEAN, fail \in FailPoints :
           trigger_reconciliation(p, force, fail)

Spec == Init /\ [][Next]_vars

\* the same handlers driven by a smaller set of uploads
CacheInvoiceUploads ==
    { Upload(Base, "GSTR1", "P1"), Upload(BuyerCopy, "GSTR2B", "P1"),
      Upload(Base, "GSTR1", "P2") }

CacheGstr3bUploads ==
    { [data |-> Gstr3b("B1", 8000000, 6000000), return_period |-> "P1"] }

\* uploads and purchase registers for the purchase-register reconciliation
PrInvoiceUploads ==
    { Upload(Base, "GSTR2B", "P1"), Upload(Base, "GSTR1", "P2"),
      Upload(ZeroTax, "GSTR2B", "P1") }

PurchaseRegisters == { <<>>, <<Base>>, <<ValueCopy>>, <<ZeroTax>> }

NextPr ==
    \/ \E u \in PrInvoiceUploads :
           UploadInvoice(u.invoice, u.return_type, u.return_period)
    \/ \E p \in Periods, force \in BOOLEAN, fail \in FailPoints :
           trigger_reconciliation(p, force, fail)
    \/ \E records \in PurchaseRegisters, fail \in BOOLEAN :
           reconcile_pr("B1", records, "P1", fail)

SpecPr == Init /\ [][NextPr]_vars

NextCache ==
    \/ \E u \in CacheInvoiceUploads :
           UploadInvoice(u.invoice, u.return_type, u.return_period)
    \/ \E u \in CacheGstr3bUploads : UploadGstr3b(u.data, u.return_period)
    \/ \E p \in Periods, force \in BOOLEAN, fail \in FailPoints :
           trigger_reconciliation(p, force, fail)

SpecCache == Init /\ [][NextCache]_vars

-----------------------------------------------------------------------------
(* Properties of the matching engine *)

\* the severity table of the design
SeverityTable(amount) ==
    CASE amount >= 50000000 -> "CRITICAL"
      [] amount >= 10000000 /\ amount < 50000000 -> "HIGH"
      [] amount >= 1000000 /\ amount < 10000000 -> "MEDIUM"
      [] OTHER -> "LOW"

\* the records of ms of one type about one (supplier, buyer, number)
RecordsFor(ms, type, s, b, n) ==
    SelectSeq(ms, LAMBDA m : /\ m.mismatch_type = type
                             /\ m.supplier_gstin = s
                             /\ m.buyer_gstin = b
                             /\ m.invoice_number = n)

\* the invoices a period's outward filings hold, and those its inward statements hold
OutwardInvoices(p) == {l.id : l \in OutwardRows(Graph, p)}

InwardInvoices(p) == {l.id : l \in InwardRows(Graph, p)}

HasCounterpart(id, others) == \E j \in others : SameKey(invoices[id], invoices[j])

\* one MISSING record of the given type for the invoice, with its total and the
\* table's severity, when it has no counterpart; none when it has one
MissingReported(ms, type, id, others) ==
    LET inv  == invoices[id]
        recs == RecordsFor(ms, type, inv.supplier_gstin, inv.buyer_gstin,
                           inv.invoice_number)
    IN IF HasCounterpart(id, others)
       THEN Len(recs) = 0
       ELSE /\ Len(recs) = 1
            /\ recs[1].amount_difference = inv.total_value
            /\ recs[1].severity = SeverityTable(inv.total_value)

\* C1: Reconcile(P) emits exactly one MISSING_IN_GSTR2B record for each outward
\* invoice of P that has no inward invoice of P with the same supplier, buyer and
\* number, exactly one MISSING_IN_GSTR1 record for each inward invoice of P without
\* such an outward invoice, and none for an invoice that has its counterpart; the
\* record carries the invoice's total and the severity of the table for it.
C1_MissingExactlyOnce ==
    \A p \in Periods :
        LET ms == reconcile_all(Graph, p)
        IN /\ \A id \in OutwardInvoices(p) :
                  MissingReported(ms, "MISSING_IN_GSTR2B", id, InwardInvoices(p))
           /\ \A id \in InwardInvoices(p) :
                  MissingReported(ms, "MISSING_IN_GSTR1", id, OutwardInvoices(p))

\* the two logical copies of an invoice: what the supplier's GSTR1 filing carried
\* and what the buyer's GSTR2B statement carried
Filed(rt, s, n, p) == <<rt, s, n, p>> \in DOMAIN filedCopy

FiledKeys(rt, p) == {k \in DOMAIN filedCopy : k[1] = rt /\ k[4] = p}

\* the invoices of P filed on both sides with the same supplier, buyer and number
MatchedPairs(p) ==
    {k \in FiledKeys("GSTR1", p) :
        /\ Filed("GSTR2B", k[2], k[3], p)
        /\ filedCopy[<<"GSTR2B", k[2], k[3], p>>].buyer_gstin = filedCopy[k].buyer_gstin}

OutwardCopy(k) == filedCopy[k]

InwardCopy(k) == filedCopy[<<"GSTR2B", k[2], k[3], k[4]>>]

ValueRecords(ms, k, f) ==
    SelectSeq(RecordsFor(ms, "VALUE_MISMATCH", k[2], OutwardCopy(k).buyer_gstin, k[3]),
              LAMBDA m : m.field_name = f)

\* C2: for every outward and inward invoice of P that share supplier, buyer and
\* number, Reconcile(P) emits exactly one VALUE_MISMATCH per field among taxable
\* value, cgst, sgst and igst whose two values differ, with the absolute difference
\* as amount, and none for a field whose values are equal.
C2_ValueMismatchPerField ==
    \A p \in Periods : \A k \in MatchedPairs(p) :
        \A i \in 1..Len(NumericFields) :
            LET f    == NumericFields[i]
                recs == ValueRecords(reconcile_all(Graph, p), k, f)
            IN IF OutwardCopy(k)[f] # InwardCopy(k)[f]
               THEN /\ Len(recs) = 1
                    /\ recs[1].amount_difference = Abs(OutwardCopy(k)[f] - InwardCopy(k)[f])
               ELSE Len(recs) = 0

\* the inward invoices of a taxpayer in P
InwardOf(gstin, p) == {l \in containsInward : l.gstin = gstin /\ l.period = p}

RECURSIVE TaxSum(_)
TaxSum(links) ==
    IF links = {} THEN 0
    ELSE LET l == CHOOSE x \in links : TRUE
         IN invoices[l.id].cgst + invoices[l.id].sgst + invoices[l.id].igst
                + TaxSum(links \ {l})

\* the available credit of the design: the inward tax, and the self-reported
\* figure only when the taxpayer has no inward invoice
AvailableCredit(gstin, p) ==
    IF InwardOf(gstin, p) = {} THEN gstr3b[<<gstin, p>>].itc_available
    ELSE TaxSum(InwardOf(gstin, p))

\* C3: for every Summary return of P the available credit is the sum of the tax
\* components of the taxpayer's inward invoices of P, the self-reported figure being
\* used only when there is no inward invoice; exactly one EXCESS_ITC record, of
\* claimed minus available and with the table's severity, is emitted if and only
\* if claimed exceeds available.
C3_ExcessCredit ==
    \A p \in Periods : \A k \in {x \in DOMAIN gstr3b : x[2] = p} :
        LET recs      == RecordsFor(reconcile_all(Graph, p), "EXCESS_ITC", "", k[1],
                                    "AGGREGATE")
            claimed   == gstr3b[k].itc_claimed
            available == AvailableCredit(k[1], p)
        IN IF claimed > available
           THEN /\ Len(recs) = 1
                /\ recs[1].amount_difference = claimed - available
                /\ recs[1].severity = SeverityTable(claimed - available)
           ELSE Len(recs) = 0

\* C4: Reconcile(P) emits exactly one RATE_MISMATCH, of severity HIGH and amount
\* |outward total - inward total|, for each matched pair of P whose rates differ,
\* and none for a pair whose rates are equal.
C4_RateMismatch ==
    \A p \in Periods : \A k \in MatchedPairs(p) :
        LET recs == RecordsFor(reconcile_all(Graph, p), "RATE_MISMATCH", k[2],
                               OutwardCopy(k).buyer_gstin, k[3])
        IN IF OutwardCopy(k).gst_rate # InwardCopy(k).gst_rate
           THEN /\ Len(recs) = 1
                /\ recs[1].severity = "HIGH"
                /\ recs[1].amount_difference =
                       Abs(OutwardCopy(k).total_value - InwardCopy(k).total_value)
           ELSE Len(recs) = 0

\* C5: Reconcile(P) emits exactly one DUPLICATE_INVOICE, of severity HIGH, amount 0
\* and the occurrence count as actual value, for each (number, supplier) filed
\* outward more than twice in P, and none for one filed once or twice.
C5_DuplicateFiling ==
    \A p \in Periods : \A k \in {x \in DOMAIN filings : x[3] = p} :
        LET recs == RecordsFor(reconcile_all(Graph, p), "DUPLICATE_INVOICE", k[1], "",
                               k[2])
        IN IF filings[k] > 2
           THEN /\ Len(recs) = 1
                /\ recs[1].severity = "HIGH"
                /\ recs[1].amount_difference = 0
                /\ recs[1].actual_value = Str(filings[k])
           ELSE Len(recs) = 0

\* the compared fields of a stored invoice are those of the filed record
Retains(node, rec) ==
    /\ node.buyer_gstin = rec.buyer_gstin
    /\ node.taxable_value = rec.taxable_value
    /\ node.cgst = rec.cgst
    /\ node.sgst = rec.sgst
    /\ node.igst = rec.igst
    /\ node.total_value = rec.total_value
    /\ node.gst_rate = rec.gst_rate

\* C6: once the outward and the inward copy of an invoice have been ingested, in
\* either order, the store holds both, each with the values it was ingested with:
\* the invoice the outward filing contains has the outward copy's values and the
\* one the inward statement contains has the inward copy's.
C6_TwoCopiesRetained ==
    \A p \in Periods : \A k \in FiledKeys("GSTR1", p) :
        (Filed("GSTR2B", k[2], k[3], p) /\ ~Filed("PURCHASE_REGISTER", k[2], k[3], p))
        => /\ \A l \in containsOutward :
                  l.id = InvoiceId(k[2], k[3], p) => Retains(invoices[l.id], OutwardCopy(k))
           /\ \A l \in containsInward :
                  l.id = InvoiceId(k[2], k[3], p) => Retains(invoices[l.id], InwardCopy(k))

-----------------------------------------------------------------------------
(* Properties of the result cache *)

MismatchTypes ==
    {"MISSING_IN_GSTR1", "MISSING_IN_GSTR2B", "VALUE_MISMATCH", "RATE_MISMATCH",
     "DUPLICATE_INVOICE", "EXCESS_ITC"}

Strip(ms) == [i \in 1..Len(ms) |-> StripId(ms[i])]

Occurrences(s, x) == Cardinality({i \in 1..Len(s) : s[i] = x})

SameMultiset(a, b) ==
    \A x \in Range(a) \cup Range(b) : Occurrences(a, x) = Occurrences(b, x)

OfType(ms, t) == Cardinality({i \in 1..Len(ms) : ms[i].mismatch_type = t})

\* the breakdown counts exactly the mismatches of ms, type by type
BreakdownOf(bd, ms) ==
    /\ DOMAIN bd = {t \in MismatchTypes : OfType(ms, t) > 0}
    /\ \A t \in DOMAIN bd : bd[t] = OfType(ms, t)

\* the last handler was a trigger for p that ended with this status
Triggered(resp, p, status) ==
    resp.op = "trigger" /\ resp.return_period = p /\ resp.status = status

\* the entry of p is what one run over the present store yields, and nothing else
FreshEntry(p) ==
    /\ p \in DOMAIN _results_store
    /\ LET e == _results_store[p]
       IN /\ SameMultiset(Strip(e.results), reconcile_all(Graph, p))
          /\ e.total = Len(reconcile_all(Graph, p))
          /\ BreakdownOf(e.breakdown, reconcile_all(Graph, p))
          /\ e.timestamp = clock
          /\ \A i \in 1..Len(e.results) : e.results[i].id[1] = clock

\* a read of p returns the entry's list, its length and its time
ReadReturnsEntry(p) ==
    /\ get_results(_results_store, p).results = _results_store[p].results
    /\ get_results(_results_store, p).total = _results_store[p].total
    /\ get_results(_results_store, p).last_run = _results_store[p].timestamp

\* the response reports the entry's total, breakdown and time
ReportsEntry(resp, p) ==
    /\ p \in DOMAIN _results_store
    /\ resp.total = _results_store[p].total
    /\ resp.breakdown = _results_store[p].breakdown
    /\ resp.last_run = _results_store[p].timestamp

NeverReconciledReadsEmpty ==
    \A p \in Periods \ DOMAIN _results_store :
        /\ get_results(_results_store, p).results = <<>>
        /\ get_results(_results_store, p).total = 0
        /\ get_results(_results_store, p).last_run = NoTimestamp
        /\ ~get_reconciliation_status(_results_store, p).has_results

C7State ==
    /\ \A p \in Periods :
           /\ Triggered(lastResp, p, "completed")
              => FreshEntry(p) /\ ReadReturnsEntry(p) /\ ReportsEntry(lastResp, p)
           /\ Triggered(lastResp, p, "cached") => ReportsEntry(lastResp, p)
    /\ NeverReconciledReadsEmpty

C8_FailedRunLeavesCache ==
    [][ \A p \in Periods, force \in BOOLEAN, fail \in 1..NumReads :
            trigger_reconciliation(p, force, fail)
            => /\ lastResp'.status = "error"
               /\ _results_store' = _results_store ]_vars

\* a run has failed for a period whose earlier entry, with mismatches, is in place
C8_Witness ==
    \E p \in Periods :
        /\ Triggered(lastResp, p, "error")
        /\ p \in DOMAIN _results_store
        /\ _results_store[p].total > 0

\* every part of the entry comes from the one run that stored it
EntryOfOneRun(e, p) ==
    /\ e.total = Len(e.results)
    /\ BreakdownOf(e.breakdown, e.results)
    /\ \A i \in 1..Len(e.results) :
           /\ e.results[i].id[1] = e.timestamp
           /\ e.results[i].return_period = p

SameEntry(c, d, p) ==
    /\ (p \in DOMAIN c) = (p \in DOMAIN d)
    /\ p \in DOMAIN c => c[p] = d[p]

\* C9: in every interleaving of triggers, every entry a reader can see comes whole
\* from one run; an entry changes only by a completed run for its own period, and
\* then holds the counts of a single run over the store, added to nothing; the
\* entries of the other periods stay as they are.
C9_OneWriterPerPeriod ==
    [][ /\ \A q \in DOMAIN _results_store' : EntryOfOneRun(_results_store'[q], q)
        /\ \A q \in Periods :
               ~SameEntry(_results_store, _results_store', q)
               => /\ Triggered(lastResp', q, "completed")
                  /\ _results_store'[q].total = Len(reconcile_all(Graph, q))
                  /\ BreakdownOf(_results_store'[q].breakdown, reconcile_all(Graph, q))
                  /\ \A r \in Periods \ {q} :
                         SameEntry(_results_store, _results_store', r) ]_vars

\* both periods hold entries with mismatches, the second trigger of a period done
C9_Witness ==
    /\ DOMAIN _results_store = Periods
    /\ \A q \in Periods : _results_store[q].total > 0
    /\ \E q \in Periods : Triggered(lastResp, q, "cached")

SameUpToIds(e, f) ==
    /\ SameMultiset(Strip(e.results), Strip(f.results))
    /\ Len(e.results) = Len(f.results)
    /\ e.total = f.total
    /\ e.breakdown = f.breakdown

-----------------------------------------------------------------------------
(* The severity of an amount, taken alone *)

\* how far around each threshold the amounts are drawn, in hundredths
MaxDelta == 8

\* everything but the call taken alone, as after construction
Idle ==
    /\ invoices = EmptyMap
    /\ containsOutward = {}
    /\ containsInward = {}
    /\ gstr3b = EmptyMap
    /\ trades = EmptyMap
    /\ taxpayers = {}
    /\ suppliedBy = {}
    /\ suppliedTo = {}
    /\ returnsFiled = {}
    /\ _results_store = EmptyMap
    /\ clock = 0
    /\ lastResp = Response("none", "none", "", 0, EmptyMap, NoTimestamp)
    /\ filedCopy = EmptyMap
    /\ filings = EmptyMap
    /\ uploads = 0

idleVars ==
    <<storeVars, historyVars, _results_store, clock, lastResp>>

SeverityAmounts ==
    {b + d : b \in {0, MEDIUM_MIN, HIGH_MIN, CRITICAL_MIN}, d \in -MaxDelta..MaxDelta}

InitSeverity ==
    /\ Idle
    /\ probe \in {[op |-> "amount", amount |-> a] : a \in SeverityAmounts}

ApplySeverity ==
    /\ probe.op = "amount"
    /\ probe' = [op |-> "_severity_for_amount", amount |-> probe.amount,
                 severity |-> _severity_for_amount(probe.amount)]
    /\ UNCHANGED idleVars

SpecSeverity == InitSeverity /\ [][ApplySeverity]_vars

\* the severity the call returned for the amount a, if it was called on a
Gives(a, sev) ==
    (probe.op = "_severity_for_amount" /\ probe.amount = a) => probe.severity = sev

\* C11: the severity of an amount is CRITICAL from 500,000, else HIGH from 100,000,
\* else MEDIUM from 10,000, else LOW, the thresholds included: 500,000 gives
\* CRITICAL, 499,999.99 HIGH, 100,000 HIGH, 10,000 MEDIUM and 9,999.99 LOW.
C11_SeverityTable ==
    /\ probe.op = "_severity_for_amount"
       => /\ probe.severity = SeverityTable(probe.amount)
          /\ probe.severity \in {"CRITICAL", "HIGH", "MEDIUM", "LOW"}
    /\ Gives(50000000, "CRITICAL")
    /\ Gives(49999999, "HIGH")
    /\ Gives(10000000, "HIGH")
    /\ Gives(9999999, "MEDIUM")
    /\ Gives(1000000, "MEDIUM")
    /\ Gives(999999, "LOW")

\* the function was called on exactly 500,000 and gave CRITICAL
C11_Witness ==
    /\ probe.op = "_severity_for_amount"
    /\ probe.amount = 50000000
    /\ probe.severity = "CRITICAL"

-----------------------------------------------------------------------------
(* Severity across the records of the cache *)

\* every record the cache holds, under whatever key, and every record a run over
\* the present store would produce
AllRecords ==
    UNION {Range(Strip(_results_store[k].results)) : k \in DOMAIN _results_store}
        \cup UNION {Range(reconcile_all(Graph, p)) : p \in Periods}

NotInBooks(m) ==
    m.mismatch_type = "MISSING_IN_GSTR1" /\ m.expected_value = "PRESENT IN PURCHASE REGISTER"

-----------------------------------------------------------------------------
(* The cycle detector (graph_db.py, find_circular_trades) *)

\* -[:TRADES_WITH*2..5]->
MIN_HOPS == 2

MAX_HOPS == 5

\* LIMIT 20
CYCLE_LIMIT == 20

\* the relationships a path goes along, as (from, to) pairs
Hops(path) == {<<path[i], path[i + 1]>> : i \in 1..(Len(path) - 1)}

\* the paths of k relationships along the edges: a variable-length pattern goes
\* along no relationship twice, and may come to a node again
RECURSIVE Trails(_, _)
Trails(edges, k) ==
    IF k = 0 THEN {<<e[1]>> : e \in edges}
    ELSE {Append(t, e[2]) : <<t, e>> \in
              {x \in Trails(edges, k - 1) \X edges :
                   x[2][1] = x[1][Len(x[1])] /\ x[2] \notin Hops(x[1])}}

\* the rows of MATCH path = (a:Taxpayer)-[:TRADES_WITH*2..5]->(a) of one length
ClosedTrails(edges, k) == {t \in Trails(edges, k) : t[1] = t[Len(t)]}

\* how many rows are shorter than k
ShorterRows(edges, k) ==
    Cardinality(UNION {ClosedTrails(edges, j) : j \in MIN_HOPS..(k - 1)})

\* ORDER BY cycle_length LIMIT 20: the rows of each length that the limit can keep;
\* the order among rows of one length is the store's, so where the limit falls
\* within a length any rows of that length of the right number may be the kept ones
KeptOfLength(edges, k) ==
    LET rows == ClosedTrails(edges, k)
        room == CYCLE_LIMIT - ShorterRows(edges, k)
    IN IF room <= 0 THEN {{}}
       ELSE IF Cardinality(rows) <= room THEN {rows}
       ELSE {s \in SUBSET rows : Cardinality(s) = room}

\* the list find_circular_trades returns when the rows kept are those of `kept`,
\* a function from the lengths to sets of rows
CycleList(kept) ==
    Flatten([i \in 1..(MAX_HOPS - MIN_HOPS + 1) |->
               LET rows == SetToSeq(kept[MIN_HOPS + i - 1])
               IN [j \in 1..Len(rows) |->
                     [cycle |-> rows[j], cycle_length |-> Len(rows[j]) - 1]]])

\* the ways the limit can keep rows of the lengths up to k
RECURSIVE Keeps(_, _)
Keeps(edges, k) ==
    IF k < MIN_HOPS THEN {EmptyMap}
    ELSE {Upsert(x[1], k, x[2]) : x \in Keeps(edges, k - 1) \X KeptOfLength(edges, k)}

\* the lists find_circular_trades can return for the TRADES_WITH edges
find_circular_trades(edges) == {CycleList(kept) : kept \in Keeps(edges, MAX_HOPS)}

\* gstins.update(cycle["cycle"]) for every cycle
_get_circular_trade_gstins(cycles) ==
    UNION {Range(cycles[i].cycle) : i \in 1..Len(cycles)}

\* the taxpayers the cycle detector is run over
Traders == {"S1", "S2", "S3"}

\* every trade graph over the traders (an invoice between any two of them adds the
\* edge), and one wider graph: the complete graph over the traders with a ring of
\* five through S1
RingGraph ==
    {<<a, b>> \in Traders \X Traders : a # b}
        \cup {<<"S1", "T1">>, <<"T1", "T2">>, <<"T2", "T3">>, <<"T3", "T4">>, <<"T4", "S1">>}

TradeGraphs == (SUBSET {<<a, b>> \in Traders \X Traders : a # b}) \cup {RingGraph}

InitCycles ==
    /\ Idle
    /\ probe \in {[op |-> "trades", edges |-> g] : g \in TradeGraphs}

\* GET /reconcile/graph/circular-trades, and the set ScoreAll derives from it
ApplyCycles ==
    /\ probe.op = "trades"
    /\ \E cycles \in find_circular_trades(probe.edges) :
           probe' = [op |-> "find_circular_trades", edges |-> probe.edges,
                     cycles |-> cycles,
                     circular_gstins |-> _get_circular_trade_gstins(cycles)]
    /\ UNCHANGED idleVars

SpecCycles == InitCycles /\ [][ApplyCycles]_vars

Found == probe.op = "find_circular_trades"

\* C13: every returned cycle is a simple directed cycle along the trade edges: it
\* starts and ends at the same taxpayer, has 2 to 5 edges, and visits no taxpayer
\* twice (the start only as first and last element).
C13_SimpleCycles ==
    Found =>
        \A i \in 1..Len(probe.cycles) :
            LET path == probe.cycles[i].cycle
                n    == probe.cycles[i].cycle_length
            IN /\ Len(path) = n + 1
               /\ n >= 2 /\ n <= 5
               /\ path[1] = path[n + 1]
               /\ Hops(path) \subseteq probe.edges
               /\ \A j, k \in 1..n : j # k => path[j] # path[k]

\* q goes round the same ring as p from another (or the same) starting point
Rotation(p, q) ==
    /\ Len(p) = Len(q)
    /\ \E r \in 0..(Len(p) - 2) :
           \A i \in 1..(Len(p) - 1) : q[i] = p[((i - 1 + r) % (Len(p) - 1)) + 1]

\* C14: no two returned cycles are rotations of one another; for the graph whose
\* only edges are S1->S2, S2->S3, S3->S1 exactly one cycle is returned, of length 3,
\* containing S1, S2 and S3.
C14_NoRotations ==
    Found =>
        /\ \A i, j \in 1..Len(probe.cycles) :
               i # j => ~Rotation(probe.cycles[i].cycle, probe.cycles[j].cycle)
        /\ probe.edges = {<<"S1", "S2">>, <<"S2", "S3">>, <<"S3", "S1">>}
           => /\ Len(probe.cycles) = 1
              /\ probe.cycles[1].cycle_length = 3
              /\ Range(probe.cycles[1].cycle) = {"S1", "S2", "S3"}

\* the paths of k edges that visit no taxpayer twice
RECURSIVE SimplePaths(_, _)
SimplePaths(edges, k) ==
    IF k = 0 THEN {<<e[1]>> : e \in edges}
    ELSE {Append(x[1], x[2][2]) : x \in
              {y \in SimplePaths(edges, k - 1) \X edges :
                   y[2][1] = y[1][Len(y[1])] /\ y[2][2] \notin Range(y[1])}}

\* the taxpayers that lie on a simple directed cycle of 2 to 5 edges
OnSimpleCycle(edges) ==
    UNION {Range(s) : s \in {s \in UNION {SimplePaths(edges, k) : k \in 1..4} :
                                 <<s[Len(s)], s[1]>> \in edges}}

\* C15: every taxpayer on a simple directed cycle of 2 to 5 edges is in some
\* returned cycle, and the taxpayers flagged by ScoreAll (those of the returned
\* cycles) are exactly the taxpayers on such a cycle, however many cycles there are.
C15_AllCycleMembersFlagged ==
    Found =>
        /\ \A g \in OnSimpleCycle(probe.edges) :
               \E i \in 1..Len(probe.cycles) : g \in Range(probe.cycles[i].cycle)
        /\ probe.circular_gstins = OnSimpleCycle(probe.edges)

-----------------------------------------------------------------------------
(* The risk scorer (risk_model.py) *)

\* expected_filings = 12
EXPECTED_FILINGS == 12

Min(a, b) == IF a < b THEN a ELSE b

Max(a, b) == IF a > b THEN a ELSE b

\* one row of the taxpayer query with the taxpayer's mismatch count
VendorRow(gstin, g1, g3, ic, mc) ==
    [gstin |-> gstin, gstr1_count |-> g1, gstr3b_count |-> g3,
     invoice_count |-> ic, mismatch_count |-> mc]

\* the fraction num / den cut off after the first decimal, in tenths
RoundTenthsDown(num, den) == (10 * num) \div den

\* round(x, 1) of the fraction num / den, in tenths: to the nearest tenth, a half to
\* the even tenth
RoundTenths(num, den) ==
    LET q == (10 * num) \div den
        r == (10 * num) % den
    IN IF 2 * r > den THEN q + 1
       ELSE IF 2 * r < den THEN q
       ELSE IF q % 2 = 0 THEN q ELSE q + 1

\* max(1, expected_filings * 2) and max(1, invoice_count): the two divisors
FilingDivisor == Max(1, EXPECTED_FILINGS * 2)

InvoiceDivisor(row) == Max(1, row.invoice_count)

\* filing_rate = min(100, (gstr1_count + gstr3b_count) / max(1, 24) * 100), as a
\* fraction over FilingDivisor
FilingRateNum(row) ==
    Min(100 * FilingDivisor, (row.gstr1_count + row.gstr3b_count) * 100)

\* the sum without its density term capped at 100
ScoreNumUncapped(row, in_circular) ==
    LET fd == FilingDivisor
        id == InvoiceDivisor(row)
    IN 25 * Max(0, 100 * fd - FilingRateNum(row)) * id
         + 30 * row.mismatch_count * 100 * fd
         + (IF in_circular THEN 100 * 25 ELSE 0) * fd * id
         + 20 * Min(100, row.mismatch_count * 5) * fd * id

\* filing_score + mismatch_score + circular_score + volume_score, the weights taken
\* in hundredths, as a fraction over ScoreDen(row):
\*   max(0, 100 - filing_rate) * 0.25 + min(100, mc / max(1, ic) * 100) * 0.30
\*   + (100 * 0.25 if in_circular else 0) + min(100, mc * 5) * 0.20
ScoreNum(row, in_circular) ==
    LET fd == FilingDivisor
        id == InvoiceDivisor(row)
    IN 25 * Max(0, 100 * fd - FilingRateNum(row)) * id
         + 30 * Min(100 * id, row.mismatch_count * 100) * fd
         + (IF in_circular THEN 100 * 25 ELSE 0) * fd * id
         + 20 * Min(100, row.mismatch_count * 5) * fd * id

ScoreDen(row) == 100 * FilingDivisor * InvoiceDivisor(row)

\* the levels with the thresholds taken as exclusive
RiskLevelExclusive(score) ==
    IF score > 750 THEN "CRITICAL"
    ELSE IF score > 500 THEN "HIGH"
    ELSE IF score > 250 THEN "MEDIUM"
    ELSE "LOW"

\* risk_score >= 75 / 50 / 25, the score in tenths
RiskLevel(score) ==
    IF score >= 750 THEN "CRITICAL"
    ELSE IF score >= 500 THEN "HIGH"
    ELSE IF score >= 250 THEN "MEDIUM"
    ELSE "LOW"

\* the labels with the mismatch-rate label given whenever the ratio the score uses
\* is above 0.3
RiskFactorsUnguarded(row, in_circular) ==
    (IF FilingRateNum(row) < 50 * FilingDivisor THEN <<"Low filing compliance">> ELSE <<>>)
    \o (IF row.mismatch_count > 5 THEN <<"High mismatch frequency">> ELSE <<>>)
    \o (IF in_circular THEN <<"Involved in circular trading pattern">> ELSE <<>>)
    \o (IF 10 * row.mismatch_count > 3 * InvoiceDivisor(row)
        THEN <<"Mismatch rate exceeds 30%">> ELSE <<>>)

\* risk_factors, in the order they are appended
RiskFactors(row, in_circular) ==
    (IF FilingRateNum(row) < 50 * FilingDivisor THEN <<"Low filing compliance">> ELSE <<>>)
    \o (IF row.mismatch_count > 5 THEN <<"High mismatch frequency">> ELSE <<>>)
    \o (IF in_circular THEN <<"Involved in circular trading pattern">> ELSE <<>>)
    \o (IF row.invoice_count > 0
            /\ 10 * row.mismatch_count > 3 * InvoiceDivisor(row)
        THEN <<"Mismatch rate exceeds 30%">> ELSE <<>>)

\* the dict appended for one row; scores and rates in tenths
VendorRisk(row, circular_gstins) ==
    LET in_circular == row.gstin \in circular_gstins
        risk_score  == RoundTenths(ScoreNum(row, in_circular), ScoreDen(row))
    IN [gstin |-> row.gstin,
        risk_score |-> risk_score,
        risk_level |-> RiskLevel(risk_score),
        filing_rate |-> RoundTenths(FilingRateNum(row), FilingDivisor),
        mismatch_count |-> row.mismatch_count,
        total_invoices |-> row.invoice_count,
        circular_trade_flag |-> in_circular,
        risk_factors |-> RiskFactors(row, in_circular)]

\* the place of v in a list sorted by falling score: behind every entry whose score
\* is not lower (sorted(..., reverse=True) keeps equal entries in their order)
InsertByScore(sorted, v) ==
    LET ahead == Cardinality({i \in 1..Len(sorted) : sorted[i].risk_score >= v.risk_score})
    IN SubSeq(sorted, 1, ahead) \o <<v>> \o SubSeq(sorted, ahead + 1, Len(sorted))

RECURSIVE SortedByScore(_)
SortedByScore(vendors) ==
    IF vendors = <<>> THEN <<>>
    ELSE InsertByScore(SortedByScore(SubSeq(vendors, 1, Len(vendors) - 1)),
                       vendors[Len(vendors)])

\* ScoreAll: one VendorRisk per row of the taxpayer query, in the order the store
\* returns the rows, then sorted by score
calculate_all_vendor_risks(rows, circular_gstins) ==
    SortedByScore([i \in 1..Len(rows) |-> VendorRisk(rows[i], circular_gstins)])

\* ScoreOne: the entry of the taxpayer in the list of ScoreAll, if any
calculate_single_vendor_risk(rows, circular_gstins, gstin) ==
    LET all  == calculate_all_vendor_risks(rows, circular_gstins)
        hits == {i \in 1..Len(all) : all[i].gstin = gstin}
    IN IF hits = {} THEN <<>>
       ELSE <<all[CHOOSE i \in hits : \A j \in hits : i <= j]>>

\* the counts the rows are drawn from
MaxReturns == 13

MaxInvoices == 3

MaxMismatches == 21

RiskRows ==
    {VendorRow("T1", g1, g3, ic, mc) :
        g1 \in 0..MaxReturns, g3 \in {0, EXPECTED_FILINGS},
        ic \in (0..MaxInvoices) \cup {10, 20}, mc \in 0..MaxMismatches}

InitRisk ==
    /\ Idle
    /\ probe \in {[op |-> "rows", rows |-> <<r>>, circular_gstins |-> cg] :
                     r \in RiskRows, cg \in {{}, {"T1"}}}

\* GET /risk/vendors
ApplyScoreAll ==
    /\ probe.op = "rows"
    /\ probe' = [op |-> "calculate_all_vendor_risks", rows |-> probe.rows,
                 circular_gstins |-> probe.circular_gstins,
                 vendors |-> calculate_all_vendor_risks(probe.rows,
                                                        probe.circular_gstins)]
    /\ UNCHANGED idleVars

SpecRisk == InitRisk /\ [][ApplyScoreAll]_vars

\* the taxpayers of the ranking, in the order of their ids
RankedGstins == <<"T1", "T2", "T3">>

\* the rows of two or three taxpayers, in every order the store can return them
RankingRows ==
    LET variants(g) == {VendorRow(g, g1, 0, 1, mc) :
                            g1 \in {0, EXPECTED_FILINGS}, mc \in {0, 1}}
        rowsOf(gs) == {rows \in [1..Len(gs) -> UNION {variants(g) : g \in Range(gs)}] :
                           \A i \in 1..Len(gs) : rows[i].gstin = gs[i]}
        orders == {gs \in UNION {[1..n -> Range(RankedGstins)] : n \in 2..3} :
                       \A i, j \in 1..Len(gs) : i # j => gs[i] # gs[j]}
    IN UNION {rowsOf(gs) : gs \in orders}

InitRanking ==
    /\ Idle
    /\ probe \in {[op |-> "rows", rows |-> rows, circular_gstins |-> {}] :
                     rows \in RankingRows}

SpecRanking == InitRanking /\ [][ApplyScoreAll]_vars

Scored == probe.op = "calculate_all_vendor_risks"

\* the row a vendor of the list was computed from
RowOf(v) == CHOOSE r \in Range(probe.rows) : r.gstin = v.gstin

Vendors == IF Scored THEN Range(probe.vendors) ELSE {}

\* C16: the risk score lies in [0,100] for every combination of return counts,
\* invoice count, mismatch count and cycle membership, and with the other inputs
\* held fixed it does not fall when mismatch_count grows by one.
C16_ScoreBoundedAndMonotone ==
    \A v \in Vendors :
        /\ v.risk_score >= 0 /\ v.risk_score <= 1000
        /\ v.mismatch_count > 0
           => LET r    == RowOf(v)
                  less == VendorRow(r.gstin, r.gstr1_count, r.gstr3b_count,
                                    r.invoice_count, r.mismatch_count - 1)
              IN VendorRisk(less, probe.circular_gstins).risk_score <= v.risk_score

\* a taxpayer with no invoices, twenty or more mismatches, no returns and on a
\* cycle is scored 100
C16_Witness ==
    \E v \in Vendors :
        /\ v.total_invoices = 0 /\ v.mismatch_count >= 20
        /\ v.circular_trade_flag /\ v.risk_score = 1000

\* 0.25(100 - filing_rate) + 0.30 min(100, ratio 100) + 0.25 (100 or 0)
\* + 0.20 min(100, 5 mismatch_count), with filing_rate = min(100, returns / 24 100)
\* and ratio = rnum / rden, as a fraction over FormulaDen(rden)
FormulaNum(returns, mc, rnum, rden, flag) ==
    25 * (2400 - (IF returns * 100 < 2400 THEN returns * 100 ELSE 2400)) * rden
      + 30 * (IF rnum < rden THEN 100 * rnum ELSE 100 * rden) * 24
      + (IF flag THEN 2500 ELSE 0) * 24 * rden
      + 20 * (IF 5 * mc < 100 THEN 5 * mc ELSE 100) * 24 * rden

FormulaDen(rden) == 100 * 24 * rden

\* score, in tenths, is num / den rounded to one decimal and within [0,100]
IsRounded(score, num, den) ==
    /\ 2 * Abs(score * den - 10 * num) <= den
    /\ score >= 0 /\ score <= 1000

LevelOf(score) ==
    CASE score >= 750 -> "CRITICAL"
      [] score >= 500 /\ score < 750 -> "HIGH"
      [] score >= 250 /\ score < 500 -> "MEDIUM"
      [] OTHER -> "LOW"

\* C18: in every VendorRisk of ScoreAll or ScoreOne the level follows from the score
\* alone: CRITICAL from 75, else HIGH from 50, else MEDIUM from 25, else LOW, the
\* values 75, 50 and 25 falling in the higher level.
C18_LevelFromScore ==
    \A v \in Vendors :
        /\ v.risk_level = LevelOf(v.risk_score)
        /\ v.risk_score = 750 => v.risk_level = "CRITICAL"
        /\ v.risk_score = 500 => v.risk_level = "HIGH"
        /\ v.risk_score = 250 => v.risk_level = "MEDIUM"
        /\ LET one == calculate_single_vendor_risk(probe.rows, probe.circular_gstins,
                                                   v.gstin)
           IN Len(one) = 1 /\ one[1] = v

\* a taxpayer was scored exactly 75 and is CRITICAL
C18_Witness ==
    \E v \in Vendors : v.risk_score = 750 /\ v.risk_level = "CRITICAL"

Has(v, label) == \E i \in 1..Len(v.risk_factors) : v.risk_factors[i] = label

\* the three labels whose conditions are not in question
PlainLabels(v) ==
    /\ Has(v, "Low filing compliance") <=> v.filing_rate < 500
    /\ Has(v, "High mismatch frequency") <=> v.mismatch_count > 5
    /\ Has(v, "Involved in circular trading pattern") <=> v.circular_trade_flag
    /\ \A i, j \in 1..Len(v.risk_factors) :
           i # j => v.risk_factors[i] # v.risk_factors[j]

IdRank(gstin) == CHOOSE i \in 1..Len(RankedGstins) : RankedGstins[i] = gstin

\* C20: the list of ScoreAll is sorted by falling score, and taxpayers of equal
\* score stand in the order of their ids, whatever order the store returned them in.
C20_SortedWithIdTies ==
    Scored =>
        \A i, j \in 1..Len(probe.vendors) :
            i < j =>
                \/ probe.vendors[i].risk_score > probe.vendors[j].risk_score
                \/ /\ probe.vendors[i].risk_score = probe.vendors[j].risk_score
                   /\ IdRank(probe.vendors[i].gstin) < IdRank(probe.vendors[j].gstin)

-----------------------------------------------------------------------------
(* The risk scorer and the scorecard over the store (risk_model.py, api/risk.py) *)

\* rows of the query of _get_vendor_mismatch_count: one per outward link, of any
\* period, of an invoice that names the taxpayer as supplier or buyer and for which
\* no inward-linked invoice has the same number and supplier
VendorMismatchRows(g, gstin) ==
    {l \in g.out :
        /\ \/ g.inv[l.id].supplier_gstin = gstin
           \/ g.inv[l.id].buyer_gstin = gstin
        /\ ~ \E m \in g.inw : SameNumberAndSupplier(g.inv[m.id], g.inv[l.id])}

\* RETURN COUNT(inv) AS mismatch_count
_get_vendor_mismatch_count(g, gstin) == Cardinality(VendorMismatchRows(g, gstin))

\* COUNT(DISTINCT g) over (t)-[:FILED]->(g) for one kind of return
FiledCount(kind, gstin) ==
    Cardinality({r \in returnsFiled : r[1] = kind /\ r[2] = gstin})

\* one row of the taxpayer query with the mismatch count read for it
TaxpayerRow(gstin) ==
    VendorRow(gstin, FiledCount("GSTR1", gstin), FiledCount("GSTR3B", gstin),
              Cardinality({e \in suppliedBy : e[2] = gstin}),
              _get_vendor_mismatch_count(Graph, gstin))

\* MATCH (t:Taxpayer) ...: one row per taxpayer, in the order of the store
TaxpayerRows == SetToSeq({TaxpayerRow(t) : t \in taxpayers})

\* the reads of ScoreAll that can raise: the cycle query, then the taxpayer query
ScoreReads == {"none", "find_circular_trades", "taxpayers"}

\* calculate_all_vendor_risks over the store: _get_circular_trade_gstins is called
\* first and nothing catches what it raises
ScoreStore(failed, cycles) ==
    IF failed # "none" THEN [status |-> "error", failed |-> failed]
    ELSE [status |-> "ok", failed |-> failed,
          rows |-> TaxpayerRows,
          circular_gstins |-> _get_circular_trade_gstins(cycles),
          vendors |-> calculate_all_vendor_risks(
                          TaxpayerRows, _get_circular_trade_gstins(cycles))]

\* GET /risk/vendors
get_vendor_risks(failed) ==
    /\ \E cycles \in find_circular_trades(DOMAIN trades) :
           LET r == ScoreStore(failed, cycles)
           IN probe' =
                  IF r.status = "error"
                  THEN [op |-> "get_vendor_risks", status |-> "error",
                        failed |-> failed]
                  ELSE [op |-> "get_vendor_risks", status |-> "ok",
                        failed |-> failed, rows |-> r.rows,
                        circular_gstins |-> r.circular_gstins,
                        vendors |-> r.vendors]
    /\ UNCHANGED idleVars

\* for m in results, where results is the entry of a period (a dict): the
\* iteration yields the keys of the entry
EntryItems(entry) == DOMAIN entry

\* m.get("supplier_gstin") on a key of the entry, a str, raises AttributeError
TimelineRaises(store) == \E k \in DOMAIN store : EntryItems(store[k]) # {}

\* GET /risk/vendors/{gstin}/scorecard: calculate_single_vendor_risk outside any
\* try, 404 without a vendor, then the mismatch timeline over the cache
get_vendor_scorecard(gstin, failed) ==
    /\ \E cycles \in find_circular_trades(DOMAIN trades) :
           LET r == ScoreStore(failed, cycles)
               vendor == IF r.status = "error" THEN <<>>
                         ELSE calculate_single_vendor_risk(
                                  r.rows, r.circular_gstins, gstin)
           IN probe' =
                  IF r.status = "error"
                  THEN [op |-> "get_vendor_scorecard", gstin |-> gstin,
                        status |-> "error", failed |-> failed]
                  ELSE IF vendor = <<>>
                  THEN [op |-> "get_vendor_scorecard", gstin |-> gstin,
                        status |-> "not_found", failed |-> failed]
                  ELSE IF TimelineRaises(_results_store)
                  THEN [op |-> "get_vendor_scorecard", gstin |-> gstin,
                        status |-> "error", failed |-> "mismatch_timeline"]
                  ELSE [op |-> "get_vendor_scorecard", gstin |-> gstin,
                        status |-> "ok", failed |-> failed,
                        vendor |-> vendor[1], mismatch_timeline |-> <<>>]
    /\ UNCHANGED idleVars

\* uploads that leave an outward invoice with its inward copy in another period,
\* a taxpayer that is only ever a buyer, and a two-party cycle
ScoreInvoiceUploads ==
    { Upload(Base, "GSTR1", "P1"), Upload(Base, "GSTR2B", "P2"),
      Upload(Reverse, "GSTR1", "P1") }

ScoredGstins == {"S1", "B1"}

NextScore ==
    \/ \E u \in ScoreInvoiceUploads :
           UploadInvoice(u.invoice, u.return_type, u.return_period)
    \/ \E force \in BOOLEAN, fail \in {0, 1} :
           trigger_reconciliation("P1", force, fail)
    \/ \E failed \in ScoreReads : get_vendor_risks(failed)
    \/ \E gstin \in ScoredGstins, failed \in ScoreReads :
           get_vendor_scorecard(gstin, failed)

SpecScore == Init /\ [][NextScore]_vars

-----------------------------------------------------------------------------
(* Claims C21, C22, C29, C30: the scorer over the store *)

\* a step of GET /risk/vendors that answered
ScoredStore == probe' # probe /\ probe'.op = "get_vendor_risks" /\ probe'.status = "ok"

VendorOf(p, gstin) == CHOOSE v \in Range(p.vendors) : v.gstin = gstin

\* the outward invoices naming the taxpayer that the missing-invoice rule of
\* Reconcile classifies as unmatched in their period
UnmatchedOutward(gstin) ==
    {l \in containsOutward :
        /\ \/ invoices[l.id].supplier_gstin = gstin
           \/ invoices[l.id].buyer_gstin = gstin
        /\ l \in MissingInGstr2bRows(Graph, l.period)}

NoCachedMismatches == \A k \in DOMAIN _results_store : _results_store[k].total = 0

\* C21: with no cached mismatches, the mismatch count ScoreAll reports for a
\* taxpayer is the number of outward invoices naming it as supplier or buyer that
\* the missing-invoice rule of Reconcile leaves unmatched (same supplier, buyer,
\* number and period): no more and no fewer.
C21_CountsWhatReconcileReports ==
    [][(ScoredStore /\ NoCachedMismatches) =>
          \A t \in taxpayers :
              VendorOf(probe', t).mismatch_count = Cardinality(UnmatchedOutward(t))]_vars

\* C22: the failures are independent: a failure of the cycle query does not make
\* ScoreAll or ScoreOne fail, and with every read of its own succeeding the scorer
\* answers whatever Reconcile did before (failed, never run, or completed).
C22_FailuresIndependent ==
    /\ (/\ probe.op \in {"get_vendor_risks", "get_vendor_scorecard"}
        /\ probe.failed = "find_circular_trades") => probe.status # "error"
    /\ (probe.op = "get_vendor_risks" /\ probe.failed = "none") => probe.status = "ok"

\* C29: for every taxpayer the mismatch count is at most the invoice count, and it
\* is 0 when the invoice count is 0.
C29_MismatchesAmongInvoices ==
    (probe.op = "get_vendor_risks" /\ probe.status = "ok") =>
        \A v \in Range(probe.vendors) :
            /\ v.mismatch_count <= v.total_invoices
            /\ v.total_invoices = 0 => v.mismatch_count = 0

\* the mismatches of a cached entry that name the taxpayer
CachedFor(entry, gstin) ==
    Cardinality({i \in 1..Len(entry.results) :
                    \/ entry.results[i].supplier_gstin = gstin
                    \/ entry.results[i].buyer_gstin = gstin})

\* one timeline item per cached period with at least one such mismatch
ExpectedTimeline(gstin) ==
    {[period |-> k, count |-> CachedFor(_results_store[k], gstin)] :
        k \in {j \in DOMAIN _results_store : CachedFor(_results_store[j], gstin) > 0}}

\* C30: with the scorer's reads succeeding, the scorecard of an existing taxpayer
\* answers in every state of the cache, and its mismatch timeline holds, for each
\* cached period, the number of cached mismatches naming the taxpayer (periods
\* with none left out).
C30_ScorecardAnswers ==
    [][(/\ probe' # probe
        /\ probe'.op = "get_vendor_scorecard"
        /\ probe'.failed \in {"none", "mismatch_timeline"}
        /\ probe'.gstin \in taxpayers)
       => /\ probe'.status = "ok"
          /\ Range(probe'.mismatch_timeline) = ExpectedTimeline(probe'.gstin)]_vars

-----------------------------------------------------------------------------
(* Claim C23: a compared numeric field that one side lacks *)

\* the base record filed with "taxable_value": null
NoTaxable == Inv("S1", "B1", "N1", Absent, 3000000, 3000000, 0, 12000000, 18)

\* the base record filed with "cgst": null
NoCgst == Inv("S1", "B1", "N1", 5000000, Absent, 3000000, 0, 12000000, 18)

AbsentInvoiceUploads ==
    { Upload(Base, "GSTR1", "P1"), Upload(Base, "GSTR2B", "P1"),
      Upload(NoTaxable, "GSTR2B", "P1"), Upload(NoCgst, "GSTR1", "P1") }

NextAbsent ==
    \/ \E u \in AbsentInvoiceUploads :
           UploadInvoice(u.invoice, u.return_type, u.return_period)
    \/ \E p \in Periods, force \in BOOLEAN, fail \in {0, 1} :
           trigger_reconciliation(p, force, fail)

SpecAbsent == Init /\ [][NextAbsent]_vars

\* the field is absent in one filed copy and not zero in the other
AbsentOnOneSide(a, b, f) ==
    \/ a[f] = Absent /\ b[f] # Absent /\ b[f] # 0
    \/ b[f] = Absent /\ a[f] # Absent /\ a[f] # 0

\* C23: for a matched pair in which a compared numeric field is absent on one side
\* and not zero on the other, Reconcile emits a VALUE_MISMATCH for that field whose
\* amount is the absolute value of the other side, whether or not another field
\* differs: the absent value counts as 0 and the pair is not dropped.
C23_AbsentFieldIsZero ==
    \A p \in Periods : \A k \in MatchedPairs(p) :
        \A i \in 1..Len(NumericFields) :
            LET f    == NumericFields[i]
                recs == ValueRecords(reconcile_all(Graph, p), k, f)
            IN AbsentOnOneSide(OutwardCopy(k), InwardCopy(k), f) =>
                   /\ Len(recs) >= 1
                   /\ recs[1].amount_difference =
                          Abs(Get(OutwardCopy(k), f) - Get(InwardCopy(k), f))

-----------------------------------------------------------------------------
(* Claim C24: the trade edges under ingest *)

\* new invoices, second copies of an ingested invoice and re-ingestions, over
\* three trade edges
TradeInvoiceUploads ==
    { Upload(Base, "GSTR1", "P1"), Upload(Base, "GSTR2B", "P1"),
      Upload(RateCopy, "GSTR2B", "P1"), Upload(BuyerCopy, "GSTR1", "P1"),
      Upload(Reverse, "GSTR1", "P1"), Upload(ZeroTax, "GSTR1", "P2") }

NextTrade ==
    \/ \E u \in TradeInvoiceUploads :
           UploadInvoice(u.invoice, u.return_type, u.return_period)
    \/ \E u \in CacheGstr3bUploads : UploadGstr3b(u.data, u.return_period)

SpecTrade == Init /\ [][NextTrade]_vars

-----------------------------------------------------------------------------
(* Claim C25: a Reconcile call its caller has abandoned *)

\* POST /reconcile whose caller gives up while reconcile_all is running: the body
\* of the handler has no await and never looks at the connection, so it runs to
\* its end, assigns the entry, and only its response is lost
trigger_abandoned(p, force) ==
    /\ force \/ p \notin DOMAIN _results_store
    /\ clock < MaxRuns
    /\ _results_store' = CacheAfterRun(_results_store, Graph, p, 0, clock + 1)
    /\ clock' = clock + 1
    /\ lastResp' = Response("trigger", "abandoned", p, 0, EmptyMap, NoTimestamp)
    /\ UNCHANGED <<storeVars, historyVars, probe>>

NextAbandon ==
    \/ \E u \in CacheInvoiceUploads :
           UploadInvoice(u.invoice, u.return_type, u.return_period)
    \/ \E p \in Periods, force \in BOOLEAN, fail \in {0, 1} :
           trigger_reconciliation(p, force, fail)
    \/ \E p \in Periods, force \in BOOLEAN : trigger_abandoned(p, force)

SpecAbandon == Init /\ [][NextAbandon]_vars

\* C25: a Reconcile(P) call that its caller has abandoned makes no write to the
\* cache afterwards, and the entry of a period is never replaced by a run that
\* started before the run that produced the entry in place.
C25_AbandonedRunDoesNotCommit ==
    [][ /\ (\E p \in Periods, force \in BOOLEAN : trigger_abandoned(p, force))
           => _results_store' = _results_store
        /\ \A p \in DOMAIN _results_store :
               /\ p \in DOMAIN _results_store'
               /\ _results_store'[p].timestamp >= _results_store[p].timestamp ]_vars

-----------------------------------------------------------------------------
(* Claim C26: the pair whose taxable values are 50,000 and 55,000 *)

\* the mismatches of ms about one (supplier, buyer, number), of any type
RecordsAbout(ms, s, b, n) ==
    SelectSeq(ms, LAMBDA m : /\ m.supplier_gstin = s
                             /\ m.buyer_gstin = b
                             /\ m.invoice_number = n)

\* C26: for the matched pair filed with taxable value 50,000 on the outward side
\* and 55,000 on the inward side, the other compared fields equal, Reconcile emits
\* exactly one mismatch: a VALUE_MISMATCH on taxable_value with amount 5,000 and
\* severity MEDIUM.
C26_FiveThousandIsMedium ==
    (/\ Filed("GSTR1", "S1", "N1", "P1")
     /\ Filed("GSTR2B", "S1", "N1", "P1")
     /\ filedCopy[<<"GSTR1", "S1", "N1", "P1">>] = Base
     /\ filedCopy[<<"GSTR2B", "S1", "N1", "P1">>] = ValueCopy)
    => LET recs == RecordsAbout(reconcile_all(Graph, "P1"), "S1", "B1", "N1")
       IN /\ Len(recs) = 1
          /\ recs[1].mismatch_type = "VALUE_MISMATCH"
          /\ recs[1].field_name = "taxable_value"
          /\ recs[1].amount_difference = 500000
          /\ recs[1].severity = "MEDIUM"

-----------------------------------------------------------------------------
(* Claims C27, C28: the entries of the cache and what readers total over them *)

RECURSIVE SumOver(_, _)
SumOver(f, S) ==
    IF S = {} THEN 0
    ELSE LET x == CHOOSE y \in S : TRUE IN f[x] + SumOver(f, S \ {x})

TypesIn(ms) == {ms[i].mismatch_type : i \in 1..Len(ms)}

\* C27: after any sequence of forced and non-forced triggers, failed runs and
\* purchase-register reconciliations, every entry of the cache is consistent in
\* itself: its total is the length of its list, its breakdown has exactly the
\* types that occur in the list, each with the number of mismatches of that type,
\* and the counts add up to the total.
C27_EntriesConsistent ==
    \A k \in DOMAIN _results_store :
        LET e == _results_store[k]
        IN /\ e.total = Len(e.results)
           /\ DOMAIN e.breakdown = TypesIn(e.results)
           /\ \A t \in DOMAIN e.breakdown : e.breakdown[t] = OfType(e.results, t)
           /\ SumOver(e.breakdown, DOMAIN e.breakdown) = e.total

\* the entry of a period with several mismatches beside the entry of a
\* purchase-register reconciliation with mismatches of two types
C27_Witness ==
    /\ "P1" \in DOMAIN _results_store
    /\ _results_store["P1"].total >= 2
    /\ PrStoreKey("B1", "P1") \in DOMAIN _results_store
    /\ Cardinality(DOMAIN _results_store[PrStoreKey("B1", "P1")].breakdown) >= 2

\* all_mismatches of get_dashboard_stats: the lists of every entry of the cache
AllMismatches(store) ==
    LET keys == SetToSeq(DOMAIN store)
    IN Flatten([i \in 1..Len(keys) |-> store[keys[i]].results])

RECURSIVE SumAmounts(_)
SumAmounts(ms) ==
    IF ms = <<>> THEN 0 ELSE Head(ms).amount_difference + SumAmounts(Tail(ms))

\* GET /stats/dashboard: the totals taken over the cache
get_dashboard_stats(store) ==
    LET all == AllMismatches(store)
    IN [total_mismatches |-> Len(all),
        total_itc_at_risk |-> SumAmounts(all),
        mismatch_breakdown |-> _breakdown(all)]

\* the cache restricted to the periods Reconcile has completed for
PeriodEntries(store) == [p \in DOMAIN store \cap Periods |-> store[p]]

\* C28: every key of the cache is a period for which a Reconcile run completed;
\* reconciling a purchase register adds and changes no entry, so the mismatch
\* count, the amount at risk and the breakdown that the dashboard takes over all
\* entries are those of the latest Reconcile output of the reconciled periods.
C28_CacheHoldsPeriodsOnly ==
    /\ DOMAIN _results_store \subseteq Periods
    /\ get_dashboard_stats(_results_store)
           = get_dashboard_stats(PeriodEntries(_results_store))
====
